---- MODULE Spec2Model ----
(***************************************************************************)
(* Model of samples/rust/rust_device.rs: a misc device whose read and      *)
(* write operations address a lazily grown vector of fixed-size blocks.    *)
(*                                                                         *)
(* Device.data   : Mutex<Vec<Vec<u8>>>   -> data, dataLock                 *)
(* Device.cursor : Mutex<usize>          -> cursor, cursorLock             *)
(*                                                                         *)
(* Every caller (a thread inside Operations::read or Operations::write)    *)
(* is a process with a program counter; one action is one atomic step of   *)
(* the code between two lock operations.  Rows are 0-based as in the       *)
(* code; TLA+ sequences are 1-based, so row r is data[r + 1].              *)
(*                                                                         *)
(* The integer widths and the block size are scaled down so that the       *)
(* boundary cases (clipping at the block end, usize/u64 overflow, a block  *)
(* index that does not fit usize) are reachable by the model checker.      *)
(*                                                                         *)
(* The copy of a slice to or from user memory is one step in Spec and      *)
(* SpecSeq, and one step per byte in SpecBytes, where the exclusion that   *)
(* the mutex on data gives to a copy is what is checked.  SpecLive is      *)
(* Spec with fair scheduling of the callers.                               *)
(***************************************************************************)
EXTENDS Integers, Sequences, FiniteSets, TLC

\* ------------------------------------------------------------------------
\* Bounds of the model
\* ------------------------------------------------------------------------

\* const BLOCK_SIZE : usize = 4096, scaled down.
BLOCK_SIZE == 4

\* Width of usize and of u64 in bits, scaled down; usize is narrower than
\* u64 as on a 32-bit target, which is the case where try_into can fail.
UsizeBits == 4

U64Bits == 7

\* Number of invocations of read/write made in a sequential execution
\* (one caller) and in a concurrent execution (all callers together).
MaxSeqCalls == 3

MaxConcCalls == 2

USIZE_MAX == 2^UsizeBits - 1

U64_MAX == 2^U64Bits - 1

Procs == {"t1", "t2"}

NoOne == "nobody"

\* Result of a checked operation that yields None / Err.
None == -1

\* Content of user memory that the device has not written.
Unset == None

\* ------------------------------------------------------------------------
\* Pure helpers, one per library call the code makes
\* ------------------------------------------------------------------------

\* u64::checked_add: None on overflow.
checked_add_u64(a, b) == IF a + b > U64_MAX THEN None ELSE a + b

\* usize::checked_add: None on overflow.
checked_add_usize(a, b) == IF a + b > USIZE_MAX THEN None ELSE a + b

\* usize::saturating_sub.
saturating_sub(a, b) == IF a >= b THEN a - b ELSE 0

\* u64 -> usize try_into: None (TryFromIntError, EINVAL) when it does not fit.
try_into_usize(x) == IF x <= USIZE_MAX THEN x ELSE None

\* Mutant of is_empty: the early return is never taken.
is_empty_never(b) == FALSE

\* user_buff.is_empty()
is_empty(b) == Len(b) = 0

\* Mutant of block_index_of: every offset lands in block 0.
block_index_zero(total) == 0

\* total_offset / BLOCK_SIZE
block_index_of(total) == total \div BLOCK_SIZE

\* Mutant of rem_of: every transfer starts at the block's first byte.
rem_zero(total) == 0

\* total_offset % BLOCK_SIZE
rem_of(total) == total % BLOCK_SIZE

\* Mutant of fill_of: one push too many.
fill_of_extra(r, len) == saturating_sub(r, len) + 2

\* let fill = row.saturating_sub(dat.len()) + 1, before the width check.
fill_of(r, len) == saturating_sub(r, len) + 1

\* Mutant of clip_end: the clipped end stops one byte short of the block.
clip_end_short(tot, bytes) == IF tot < bytes THEN tot ELSE bytes - 1

\* Mutant of clip_end: the end is not clipped to the block at all.
clip_end_unclipped(tot, bytes) == tot

\* let mut end = bytes; if tot < bytes { end = tot }
clip_end(tot, bytes) == IF tot < bytes THEN tot ELSE bytes

\* Mutant of returned_count: the end of the range is returned.
returned_count_end(e, o) == e

\* end.saturating_sub(offset): the byte count returned.
returned_count(e, o) == saturating_sub(e, o)

\* Mutant of new_block: a pushed block is not empty.
new_block_dirty == <<0>>

\* Vec::<u8>::new()
new_block == << >>

\* Mutant of try_resize: the new bytes are not the fill value.
try_resize_dirty(block, n, v) ==
    [i \in 1..n |-> IF i <= Len(block) THEN block[i] ELSE v + 1]

\* Mutant of try_resize: one byte short.
try_resize_short(block, n, v) ==
    [i \in 1..(n - 1) |-> IF i <= Len(block) THEN block[i] ELSE v]

\* Mutant of try_resize: one byte too many.
try_resize_long(block, n, v) ==
    [i \in 1..(n + 1) |-> IF i <= Len(block) THEN block[i] ELSE v]

\* Vec::try_resize(n, v) when it succeeds: truncate, or extend with v.
try_resize(block, n, v) ==
    [i \in 1..n |-> IF i <= Len(block) THEN block[i] ELSE v]

\* dat[row].len() != BLOCK_SIZE
needs_resize(block) == Len(block) # BLOCK_SIZE

\* Mutant of slice: the range starts at the block's first byte.
slice_from_start(block, lo, hi) == SubSeq(block, 1, hi - lo)

\* &dat[row][lo..hi]
slice(block, lo, hi) == SubSeq(block, lo + 1, hi)

\* The slice expression panics unless lo <= hi <= len.
slice_ok(block, lo, hi) == lo <= hi /\ hi <= Len(block)

\* user_buff.write_slice(src) when it succeeds: src lands at the start of
\* the user's buffer.
write_slice(ubuf, src) ==
    [i \in 1..Len(ubuf) |-> IF i <= Len(src) THEN src[i] ELSE ubuf[i]]

\* Mutant of read_slice: the byte after the range is written too.
read_slice_wide(ubuf, block, lo, hi) ==
    [i \in 1..Len(block) |->
        IF lo < i /\ i <= hi THEN ubuf[i - lo]
        ELSE IF i = hi + 1 THEN ubuf[1] ELSE block[i]]

\* user_buff.read_slice(&mut block[lo..hi]) when it succeeds: the first
\* hi - lo bytes of the user's buffer land in block[lo..hi].
read_slice(ubuf, block, lo, hi) ==
    [i \in 1..Len(block) |-> IF lo < i /\ i <= hi THEN ubuf[i - lo] ELSE block[i]]

\* Mutant of can_lock: lock() does not wait for the holder.
can_lock_always(holder) == TRUE

\* Mutex::lock returns once nobody holds the mutex.
can_lock(holder) == holder = NoOne

\* Mutant of drop_curr_pos: the guard on the cursor outlives its block.
drop_curr_pos_late(holder) == holder

\* The closing brace of lines 90 / 120 drops curr_pos: the holder of the
\* cursor's mutex after it.
drop_curr_pos(holder) == NoOne

Ok(n) == [ok |-> TRUE, val |-> n, err |-> ""]

Err(e) == [ok |-> FALSE, val |-> 0, err |-> e]

NoResult == [ok |-> FALSE, val |-> 0, err |-> "none"]

\* ------------------------------------------------------------------------
\* Inputs
\* ------------------------------------------------------------------------

\* A source buffer of n bytes n+1, n+2, ...: buffers of different lengths
\* differ in every byte, and no byte of one is zero.
Pattern(n) == [i \in 1..n |-> n + i]

\* A destination buffer of n bytes of user memory.
Blank(n) == [i \in 1..n |-> Unset]

SeqOffsets ==
    {0, BLOCK_SIZE - 1, BLOCK_SIZE + 1, USIZE_MAX * BLOCK_SIZE, U64_MAX}

SeqLens == {0, 1, 3, USIZE_MAX}

ConcOffsets == {0, BLOCK_SIZE + 1, USIZE_MAX * BLOCK_SIZE}

ConcLens == {2, BLOCK_SIZE}

\* ------------------------------------------------------------------------
\* State
\* ------------------------------------------------------------------------

VARIABLES
    data,          \* Device.data: the Vec of blocks
    cursor,        \* Device.cursor
    dataLock,      \* holder of data's mutex, or NoOne
    cursorLock,    \* holder of cursor's mutex, or NoOne
    pc,            \* per caller: position in read/write/find_block
    op,            \* per caller: "read" or "write"
    offset,        \* per caller: the _offset argument
    user_buff,     \* per caller: the user buffer (source or destination)
    row,           \* per caller: local row
    block_offset,  \* per caller: local block_offset (read) / offset (write)
    fill,          \* per caller: iterations left of the push loop
    bytes,         \* per caller: local bytes, what find_block returned
    endv,          \* per caller: local end
    result,        \* per caller: what the call returned
    callers,       \* the callers that exist in this execution
    calls,         \* per caller: invocations made so far
    bytewise,      \* whether the copies are modelled byte by byte
    moved,         \* per caller: bytes its copy has moved so far
    flat,          \* ghost: absolute position -> byte, by successful writes
    chain,         \* ghost: per caller, the buffer being written in pieces
    lastw,         \* ghost: the last unclipped write not yet overwritten
    entry,         \* ghost: per caller, data as its find_block found it
    retry          \* ghost: per caller, the find_block of its last call
                   \* if that call failed for lack of memory

vars == <<data, cursor, dataLock, cursorLock, pc, op, offset, user_buff, row,
          block_offset, fill, bytes, endv, result, callers, calls, bytewise,
          moved, flat, chain, lastw, entry, retry>>

locals == <<row, block_offset, fill, bytes, endv>>

copying == <<bytewise, moved>>

writes == <<flat, chain, lastw>>

ghosts == <<flat, chain, lastw, entry, retry>>

NoChain == [off |-> 0, buf |-> << >>, calls |-> 0, sent |-> 0]

NoWrite == [off |-> None, buf |-> << >>]

NoEntry == [set |-> FALSE, dat |-> << >>]

NoRetry == [set |-> FALSE, row |-> 0, want |-> << >>]

\* A block of BLOCK_SIZE bytes that starts with b and is zero after it.
ZeroExtended(b) == [i \in 1..BLOCK_SIZE |-> IF i <= Len(b) THEN b[i] ELSE 0]

\* Reference for find_block: the store that a find_block(r) in which no
\* allocation fails leaves when it is entered with the store d.  Rows up
\* to r exist, the new ones empty, and row r has BLOCK_SIZE bytes.
ensure_block(d, r) ==
    LET grown == [i \in 1..(IF r >= Len(d) THEN r + 1 ELSE Len(d)) |->
                     IF i <= Len(d) THEN d[i] ELSE << >>]
    IN  [grown EXCEPT ![r + 1] =
            IF Len(@) = BLOCK_SIZE THEN @ ELSE ZeroExtended(@)]

Sequential == Cardinality(callers) = 1

\* Ghosts of growth.  They are kept in sequential executions, where nothing
\* but the caller's own find_block changes the store between the entry of
\* a find_block and the caller's next call.  Entered: the caller's
\* find_block has locked data.  Failed: it has returned ENOMEM, and the
\* store a find_block without failure would have left is remembered for the
\* caller's next call.  Left: the call has ended otherwise, or a new one
\* begins.
Entered(p) ==
    [entry EXCEPT ![p] = IF Sequential THEN [set |-> TRUE, dat |-> data] ELSE @]

Failed(p) ==
    [retry EXCEPT ![p] =
        IF Sequential
        THEN [set |-> TRUE, row |-> row[p],
              want |-> ensure_block(entry[p].dat, row[p])]
        ELSE @]

Left(g, p, none) == [g EXCEPT ![p] = none]

\* Invocations made so far, and how many an execution may make.
TotalCalls == calls["t1"] + calls["t2"]

CallLimit == IF Sequential THEN MaxSeqCalls ELSE MaxConcCalls

Offsets == IF Sequential THEN SeqOffsets ELSE ConcOffsets

Lens == IF Sequential THEN SeqLens ELSE ConcLens

\* The buffers a caller may pass: sources for write, destinations for read.
Buffers(o) ==
    IF o = "write" THEN {Pattern(n) : n \in Lens}
    ELSE {Blank(n) : n \in Lens}

\* Mutant of InitDevice: the cursor does not start at 0.
InitDevice_cursor_moved ==
    /\ data = << >>
    /\ cursor = 1
    /\ dataLock = NoOne
    /\ cursorLock = NoOne

\* Device::try_new: an empty Vec and cursor 0; nobody holds a lock.
InitDevice ==
    /\ data = << >>
    /\ cursor = 0
    /\ dataLock = NoOne
    /\ cursorLock = NoOne

InitCallers ==
    /\ pc = [p \in Procs |-> "idle"]
    /\ op = [p \in Procs |-> "read"]
    /\ offset = [p \in Procs |-> 0]
    /\ user_buff = [p \in Procs |-> << >>]
    /\ row = [p \in Procs |-> 0]
    /\ block_offset = [p \in Procs |-> 0]
    /\ fill = [p \in Procs |-> 0]
    /\ bytes = [p \in Procs |-> 0]
    /\ endv = [p \in Procs |-> 0]
    /\ result = [p \in Procs |-> NoResult]
    /\ calls = [p \in Procs |-> 0]
    /\ moved = [p \in Procs |-> 0]
    /\ flat = << >>
    /\ chain = [p \in Procs |-> NoChain]
    /\ lastw = NoWrite
    /\ entry = [p \in Procs |-> NoEntry]
    /\ retry = [p \in Procs |-> NoRetry]

\* Concurrent executions: every caller exists.  A copy is one step.
Init ==
    /\ InitDevice
    /\ InitCallers
    /\ callers = Procs
    /\ bytewise = FALSE

\* Sequential executions: one caller.
InitSeq ==
    /\ InitDevice
    /\ InitCallers
    /\ callers = {"t1"}
    /\ bytewise = FALSE

\* Concurrent executions in which a copy moves one byte in a step.
InitBytes ==
    /\ InitDevice
    /\ InitCallers
    /\ callers = Procs
    /\ bytewise = TRUE

\* ------------------------------------------------------------------------
\* Views of the store
\* ------------------------------------------------------------------------

\* Materialization status of a row.
Status(d, r) ==
    IF r >= Len(d) THEN "absent"
    ELSE IF Len(d[r + 1]) = BLOCK_SIZE THEN "full"
    ELSE IF Len(d[r + 1]) = 0 THEN "empty"
    ELSE "partial"

\* The byte stored at an absolute position; 0 where nothing is materialized.
ByteAt(d, pos) ==
    IF Status(d, pos \div BLOCK_SIZE) = "full"
    THEN d[(pos \div BLOCK_SIZE) + 1][(pos % BLOCK_SIZE) + 1]
    ELSE 0

\* ------------------------------------------------------------------------
\* Operations::read / Operations::write, up to find_block
\* ------------------------------------------------------------------------

\* Entry of read (line 84) and write (line 114) with the given arguments:
\* an empty buffer returns Ok(0) at once, anything else goes on to the
\* cursor.  The locals of the new activation hold nothing yet.
Invoke(p, o, off, b) ==
    /\ TotalCalls < CallLimit
    /\ calls' = [calls EXCEPT ![p] = @ + 1]
    /\ op' = [op EXCEPT ![p] = o]
    /\ offset' = [offset EXCEPT ![p] = off]
    /\ user_buff' = [user_buff EXCEPT ![p] = b]
    /\ IF is_empty(b)
       THEN /\ pc' = [pc EXCEPT ![p] = "done"]
            /\ result' = [result EXCEPT ![p] = Ok(0)]
       ELSE /\ pc' = [pc EXCEPT ![p] = "cursor_lock"]
            /\ result' = [result EXCEPT ![p] = NoResult]
    /\ row' = [row EXCEPT ![p] = 0]
    /\ block_offset' = [block_offset EXCEPT ![p] = 0]
    /\ fill' = [fill EXCEPT ![p] = 0]
    /\ bytes' = [bytes EXCEPT ![p] = 0]
    /\ endv' = [endv EXCEPT ![p] = 0]
    /\ entry' = Left(entry, p, NoEntry)
    /\ retry' = IF result[p].err = "ENOMEM" THEN retry
                ELSE Left(retry, p, NoRetry)
    /\ UNCHANGED <<data, cursor, dataLock, cursorLock, callers, copying, flat,
                   lastw>>

\* A caller invokes read or write with a fresh offset and buffer.
Call(p) ==
    /\ p \in callers
    /\ pc[p] \in {"idle", "done"}
    /\ \E o \in {"read", "write"} :
         \E off \in Offsets :
           \E b \in Buffers(o) :
             /\ Invoke(p, o, off, b)
             /\ chain' = [chain EXCEPT ![p] =
                            [off |-> off, buf |-> b, calls |-> 1, sent |-> 0]]

\* The caller of a write that returned fewer bytes than it passed invokes
\* write again with the offset advanced by the bytes transferred so far and
\* the rest of the buffer.
ContinueCall(p) ==
    /\ p \in callers
    /\ pc[p] = "done"
    /\ op[p] = "write"
    /\ result[p].ok
    /\ chain[p].sent < Len(chain[p].buf)
    /\ chain[p].off + chain[p].sent <= U64_MAX
    /\ Invoke(p, "write", chain[p].off + chain[p].sent,
              SubSeq(chain[p].buf, chain[p].sent + 1, Len(chain[p].buf)))
    /\ chain' = [chain EXCEPT ![p].calls = @ + 1]

\* let curr_pos = this.cursor.lock();
LockCursor(p) ==
    /\ pc[p] = "cursor_lock"
    /\ can_lock(cursorLock)
    /\ cursorLock' = p
    /\ pc' = [pc EXCEPT ![p] = "cursor_read"]
    /\ UNCHANGED <<data, cursor, dataLock, op, offset, user_buff, locals,
                   result, callers, calls, copying, ghosts>>

\* let cast = (*curr_pos).try_into().unwrap();
\* total_offset = _offset.checked_add(cast).unwrap();
\* On overflow the unwrap panics while curr_pos is still held.  Otherwise
\* the block of lines 86-90 / 116-120 ends and drops curr_pos, and the
\* division, the remainder and the two try_into()? of lines 91-94 / 122-125
\* follow.
ReadCursor(p) ==
    /\ pc[p] = "cursor_read"
    /\ LET total_offset == checked_add_u64(offset[p], cursor)
           r == try_into_usize(block_index_of(total_offset))
           o == try_into_usize(rem_of(total_offset))
       IN  /\ IF total_offset = None
              THEN /\ pc' = [pc EXCEPT ![p] = "panicked"]
                   /\ UNCHANGED <<cursorLock, row, block_offset, result>>
              ELSE /\ cursorLock' = drop_curr_pos(cursorLock)
                   /\ IF r = None \/ o = None
                      THEN /\ pc' = [pc EXCEPT ![p] = "done"]
                           /\ result' = [result EXCEPT ![p] = Err("EINVAL")]
                           /\ UNCHANGED <<row, block_offset>>
                      ELSE /\ pc' = [pc EXCEPT ![p] = "find_block"]
                           /\ row' = [row EXCEPT ![p] = r]
                           /\ block_offset' = [block_offset EXCEPT ![p] = o]
                           /\ UNCHANGED result
           \* Ghost: a call for another row is not a retry.
           /\ retry' = IF retry[p].row = r THEN retry
                       ELSE Left(retry, p, NoRetry)
    /\ UNCHANGED <<data, cursor, dataLock, op, offset, user_buff, fill, bytes,
                   endv, callers, calls, copying, writes, entry>>

\* ------------------------------------------------------------------------
\* Device::find_block
\* ------------------------------------------------------------------------

\* let mut dat = self.data.lock(); if row >= dat.len() { let fill = ... }
\* The + 1 of line 43 overflows usize when row = usize::MAX and the Vec is
\* empty: a build with overflow checks panics (FindBlockOverflow), a build
\* without them wraps fill to 0.
FindBlockLock(p) ==
    /\ pc[p] = "find_block"
    /\ can_lock(dataLock)
    /\ dataLock' = p
    /\ IF row[p] >= Len(data)
       THEN LET f == fill_of(row[p], Len(data)) % (USIZE_MAX + 1)
            IN  /\ fill' = [fill EXCEPT ![p] = f]
                /\ pc' = [pc EXCEPT ![p] = IF f > 0 THEN "fb_push" ELSE "fb_resize"]
       ELSE /\ pc' = [pc EXCEPT ![p] = "fb_resize"]
            /\ UNCHANGED fill
    /\ entry' = Entered(p)
    /\ UNCHANGED <<data, cursor, cursorLock, op, offset, user_buff, row,
                   block_offset, bytes, endv, result, callers, calls, copying,
                   writes, retry>>

\* Line 43 in a build with overflow checks: the addition panics with dat
\* held.
FindBlockOverflow(p) ==
    /\ pc[p] = "find_block"
    /\ can_lock(dataLock)
    /\ row[p] >= Len(data)
    /\ fill_of(row[p], Len(data)) > USIZE_MAX
    /\ dataLock' = p
    /\ pc' = [pc EXCEPT ![p] = "panicked"]
    /\ entry' = Entered(p)
    /\ UNCHANGED <<data, cursor, cursorLock, op, offset, user_buff, locals,
                   result, callers, calls, copying, writes, retry>>

\* One iteration of the loop of lines 44-52 in which try_push succeeds.  A
\* Vec holds at most usize::MAX elements.
PushOk(p) ==
    /\ pc[p] = "fb_push"
    /\ Len(data) < USIZE_MAX
    /\ data' = Append(data, new_block)
    /\ fill' = [fill EXCEPT ![p] = @ - 1]
    /\ pc' = [pc EXCEPT ![p] = IF fill[p] = 1 THEN "fb_resize" ELSE "fb_push"]
    /\ UNCHANGED <<cursor, dataLock, cursorLock, op, offset, user_buff, row,
                   block_offset, bytes, endv, result, callers, calls, copying,
                   ghosts>>

\* One iteration in which try_push fails: return Err(ENOMEM), dropping dat;
\* read/write hand the error to their caller (lines 104, 135).
PushFail(p) ==
    /\ pc[p] = "fb_push"
    /\ dataLock' = NoOne
    /\ pc' = [pc EXCEPT ![p] = "done"]
    /\ result' = [result EXCEPT ![p] = Err("ENOMEM")]
    /\ retry' = Failed(p)
    /\ UNCHANGED <<data, cursor, cursorLock, op, offset, user_buff, locals,
                   callers, calls, copying, writes, entry>>

\* find_block returned Ok(b) to read or write and dat was dropped.  read
\* computes tot and end before it locks again (lines 97-99), and its unwrap
\* panics on overflow; write computes them after locking (XferLock).
FindBlockReturns(p, b) ==
    /\ dataLock' = NoOne
    /\ bytes' = [bytes EXCEPT ![p] = b]
    /\ IF op[p] = "read"
       THEN LET tot == checked_add_usize(Len(user_buff[p]), block_offset[p])
            IN  IF tot = None
                THEN /\ pc' = [pc EXCEPT ![p] = "panicked"]
                     /\ UNCHANGED endv
                ELSE /\ pc' = [pc EXCEPT ![p] = "xfer_lock"]
                     /\ endv' = [endv EXCEPT ![p] = clip_end(tot, b)]
       ELSE /\ pc' = [pc EXCEPT ![p] = "xfer_lock"]
            /\ UNCHANGED endv
    /\ UNCHANGED <<cursor, cursorLock, op, offset, user_buff, row,
                   block_offset, fill, result, callers, calls, copying, ghosts>>

\* dat[row] of line 54 indexes past the end (fill wrapped to 0): panic with
\* dat held.
ResizeIndexPanic(p) ==
    /\ pc[p] = "fb_resize"
    /\ row[p] >= Len(data)
    /\ pc' = [pc EXCEPT ![p] = "panicked"]
    /\ UNCHANGED <<data, cursor, dataLock, cursorLock, op, offset, user_buff,
                   locals, result, callers, calls, copying, ghosts>>

\* dat[row].len() != BLOCK_SIZE and try_resize(BLOCK_SIZE, 0) succeeds.
ResizeOk(p) ==
    /\ pc[p] = "fb_resize"
    /\ row[p] < Len(data)
    /\ needs_resize(data[row[p] + 1])
    /\ data' = [data EXCEPT ![row[p] + 1] = try_resize(@, BLOCK_SIZE, 0)]
    /\ FindBlockReturns(p, BLOCK_SIZE)

\* dat[row].len() != BLOCK_SIZE and try_resize fails: Err(ENOMEM).
ResizeFail(p) ==
    /\ pc[p] = "fb_resize"
    /\ row[p] < Len(data)
    /\ needs_resize(data[row[p] + 1])
    /\ dataLock' = NoOne
    /\ pc' = [pc EXCEPT ![p] = "done"]
    /\ result' = [result EXCEPT ![p] = Err("ENOMEM")]
    /\ retry' = Failed(p)
    /\ UNCHANGED <<data, cursor, cursorLock, op, offset, user_buff, locals,
                   callers, calls, copying, writes, entry>>

\* The block already has BLOCK_SIZE bytes: return Ok(BLOCK_SIZE).
AlreadyFull(p) ==
    /\ pc[p] = "fb_resize"
    /\ row[p] < Len(data)
    /\ ~needs_resize(data[row[p] + 1])
    /\ UNCHANGED data
    /\ FindBlockReturns(p, BLOCK_SIZE)

\* ------------------------------------------------------------------------
\* The transfer step of read and write
\* ------------------------------------------------------------------------

\* read, line 100: let dat = this.data.lock();
\* write, lines 128-131: let mut vec = this.data.lock(); then tot and end,
\* whose unwrap panics on overflow with vec held.
XferLock(p) ==
    /\ pc[p] = "xfer_lock"
    /\ can_lock(dataLock)
    /\ dataLock' = p
    /\ IF op[p] = "read"
       THEN /\ pc' = [pc EXCEPT ![p] = "xfer_copy"]
            /\ UNCHANGED endv
       ELSE LET tot == checked_add_usize(Len(user_buff[p]), block_offset[p])
            IN  IF tot = None
                THEN /\ pc' = [pc EXCEPT ![p] = "panicked"]
                     /\ UNCHANGED endv
                ELSE /\ pc' = [pc EXCEPT ![p] = "xfer_copy"]
                     /\ endv' = [endv EXCEPT ![p] = clip_end(tot, bytes[p])]
    /\ UNCHANGED <<data, cursor, cursorLock, op, offset, user_buff, row,
                   block_offset, fill, bytes, result, callers, calls, copying,
                   ghosts>>

\* dat[row][block_offset..end] is in range: the index and the slice
\* expressions of lines 101 / 132 do not panic.
TargetInRange(p) ==
    /\ row[p] < Len(data)
    /\ slice_ok(data[row[p] + 1], block_offset[p], endv[p])

\* The index or the slice of lines 101 / 132 is out of range: panic with
\* the lock held.
XferPanic(p) ==
    /\ pc' = [pc EXCEPT ![p] = "panicked"]
    /\ UNCHANGED <<data, cursor, dataLock, cursorLock, op, offset, user_buff,
                   locals, result, callers, calls, copying, ghosts>>

\* The copy primitive (write_slice / read_slice) fails: the ? returns its
\* error, dropping the lock.  No byte has moved.
CopyFail(p) ==
    /\ pc[p] = "xfer_copy"
    /\ TargetInRange(p)
    /\ moved[p] = 0
    /\ dataLock' = NoOne
    /\ pc' = [pc EXCEPT ![p] = "done"]
    /\ result' = [result EXCEPT ![p] = Err("EFAULT")]
    /\ entry' = Left(entry, p, NoEntry)
    /\ retry' = Left(retry, p, NoRetry)
    /\ UNCHANGED <<data, cursor, cursorLock, op, offset, user_buff, locals,
                   callers, calls, copying, writes>>

\* read, lines 101-102: write_slice succeeds; return the count.  The copy
\* is one step, or one step for each byte of the slice, in order, and a last
\* one that returns.
ReadCopy(p) ==
    /\ pc[p] = "xfer_copy"
    /\ op[p] = "read"
    /\ IF TargetInRange(p)
       THEN IF bytewise /\ moved[p] < returned_count(endv[p], block_offset[p])
            THEN /\ user_buff' = [user_buff EXCEPT ![p][moved[p] + 1] =
                        slice(data[row[p] + 1], block_offset[p] + moved[p],
                              block_offset[p] + moved[p] + 1)[1]]
                 /\ moved' = [moved EXCEPT ![p] = @ + 1]
                 /\ UNCHANGED <<data, cursor, dataLock, cursorLock, pc, op,
                                offset, locals, result, callers, calls,
                                bytewise, ghosts>>
            ELSE /\ user_buff' = [user_buff EXCEPT ![p] =
                        IF bytewise THEN @
                        ELSE write_slice(@, slice(data[row[p] + 1],
                                                  block_offset[p], endv[p]))]
                 /\ result' = [result EXCEPT ![p] =
                        Ok(returned_count(endv[p], block_offset[p]))]
                 /\ dataLock' = NoOne
                 /\ pc' = [pc EXCEPT ![p] = "done"]
                 /\ moved' = [moved EXCEPT ![p] = 0]
                 /\ entry' = Left(entry, p, NoEntry)
                 /\ retry' = Left(retry, p, NoRetry)
                 /\ UNCHANGED <<data, cursor, cursorLock, op, offset, locals,
                                callers, calls, bytewise, writes>>
       ELSE XferPanic(p)

\* Ghost: the byte count a write of buffer b at absolute offset off is
\* expected to store, and the flat array after storing them.
Expected(off, b) ==
    IF Len(b) < BLOCK_SIZE - (off % BLOCK_SIZE)
    THEN Len(b) ELSE BLOCK_SIZE - (off % BLOCK_SIZE)

Stored(f, off, b) ==
    [pos \in DOMAIN f \cup {off + i : i \in 0..(Expected(off, b) - 1)} |->
        IF pos >= off /\ pos < off + Expected(off, b)
        THEN b[pos - off + 1] ELSE f[pos]]

\* Ghost: the last unclipped write, forgotten when a later write touches
\* its range.
Remembered(lw, off, b, n) ==
    IF n = Len(b) THEN [off |-> off, buf |-> b]
    ELSE IF lw.off # None /\ off < lw.off + Len(lw.buf) /\ lw.off < off + n
    THEN NoWrite ELSE lw

\* write, lines 132-133: read_slice succeeds; return the count.  The copy
\* is one step, or one step for each byte of the slice, in order, and a last
\* one that returns.
WriteCopy(p) ==
    /\ pc[p] = "xfer_copy"
    /\ op[p] = "write"
    /\ IF TargetInRange(p)
       THEN IF bytewise /\ moved[p] < returned_count(endv[p], block_offset[p])
            THEN /\ data' = [data EXCEPT ![row[p] + 1] =
                        read_slice(SubSeq(user_buff[p], moved[p] + 1, moved[p] + 1),
                                   @, block_offset[p] + moved[p],
                                   block_offset[p] + moved[p] + 1)]
                 /\ moved' = [moved EXCEPT ![p] = @ + 1]
                 /\ flat' = Stored(flat, offset[p] + moved[p],
                                   SubSeq(user_buff[p], moved[p] + 1, moved[p] + 1))
                 /\ UNCHANGED <<cursor, dataLock, cursorLock, pc, op, offset,
                                user_buff, locals, result, callers, calls,
                                bytewise, chain, lastw, entry, retry>>
            ELSE /\ data' = IF bytewise THEN data
                            ELSE [data EXCEPT ![row[p] + 1] =
                                    read_slice(user_buff[p], @, block_offset[p],
                                               endv[p])]
                 /\ result' = [result EXCEPT ![p] =
                        Ok(returned_count(endv[p], block_offset[p]))]
                 /\ dataLock' = NoOne
                 /\ pc' = [pc EXCEPT ![p] = "done"]
                 /\ moved' = [moved EXCEPT ![p] = 0]
                 /\ flat' = IF bytewise THEN flat
                            ELSE Stored(flat, offset[p], user_buff[p])
                 /\ chain' = [chain EXCEPT ![p].sent =
                        @ + returned_count(endv[p], block_offset[p])]
                 /\ lastw' = Remembered(lastw, offset[p], user_buff[p],
                                        returned_count(endv[p], block_offset[p]))
                 /\ entry' = Left(entry, p, NoEntry)
                 /\ retry' = Left(retry, p, NoRetry)
                 /\ UNCHANGED <<cursor, cursorLock, op, offset, user_buff,
                                locals, callers, calls, bytewise>>
       ELSE XferPanic(p)

\* ------------------------------------------------------------------------
\* Specifications
\* ------------------------------------------------------------------------

Next ==
    \E p \in Procs :
        \/ Call(p)
        \/ ContinueCall(p)
        \/ LockCursor(p)
        \/ ReadCursor(p)
        \/ FindBlockLock(p)
        \/ FindBlockOverflow(p)
        \/ PushOk(p)
        \/ PushFail(p)
        \/ ResizeIndexPanic(p)
        \/ ResizeOk(p)
        \/ ResizeFail(p)
        \/ AlreadyFull(p)
        \/ XferLock(p)
        \/ CopyFail(p)
        \/ ReadCopy(p)
        \/ WriteCopy(p)

\* Concurrent callers.
Spec == Init /\ [][Next]_vars

\* One caller.
SpecSeq == InitSeq /\ [][Next]_vars

\* Concurrent callers whose copies move one byte in a step.
SpecBytes == InitBytes /\ [][Next]_vars

\* The steps of a call that is under way: everything but the invocations.
Progress(p) ==
    \/ LockCursor(p)
    \/ ReadCursor(p)
    \/ FindBlockLock(p)
    \/ FindBlockOverflow(p)
    \/ PushOk(p)
    \/ PushFail(p)
    \/ ResizeIndexPanic(p)
    \/ ResizeOk(p)
    \/ ResizeFail(p)
    \/ AlreadyFull(p)
    \/ XferLock(p)
    \/ CopyFail(p)
    \/ ReadCopy(p)
    \/ WriteCopy(p)

\* Concurrent callers that are scheduled fairly and to whom the mutexes are
\* granted fairly: a caller whose next step is possible again and again
\* (a lock() on a mutex that is free again and again) takes it.
SpecLive == Init /\ [][Next]_vars /\ \A p \in Procs : SF_vars(Progress(p))

\* ------------------------------------------------------------------------
\* Properties
\* ------------------------------------------------------------------------

Min(a, b) == IF a < b THEN a ELSE b

\* The absolute offset a call is translated from.
TotalOffset(p) == offset[p] + cursor

\* The in-block offset of a call.
InBlock(p) == TotalOffset(p) % BLOCK_SIZE

\* Every byte position the store has a row for.
AllPositions == 0..(Len(data) * BLOCK_SIZE - 1)

\* What the successful writes so far have put at a position.
FlatAt(pos) == IF pos \in DOMAIN flat THEN flat[pos] ELSE 0

\* The store holds exactly what the successful writes put there.
StoreIsFlat == \A pos \in AllPositions : ByteAt(data, pos) = FlatAt(pos)

\* A call that has returned Ok for a non-empty buffer.
Succeeded(p) ==
    /\ p \in callers
    /\ pc[p] = "done"
    /\ result[p].ok
    /\ Len(user_buff[p]) > 0

\* C1 (boundary clipping): a successful read or write of a non-empty buffer
\* of length L at in-block offset o returns exactly min(L, BLOCK_SIZE - o),
\* which is at least 1 and at most BLOCK_SIZE - o, and the bytes moved are
\* exactly those at absolute positions [total, total + returned), all in
\* block total / BLOCK_SIZE: a read leaves the rest of its buffer untouched
\* and a write leaves every other stored byte as the earlier writes left it.
C1_BoundaryClipping ==
    \A p \in Procs :
        Succeeded(p) =>
            LET total == TotalOffset(p)
                o == InBlock(p)
                L == Len(user_buff[p])
                n == result[p].val
            IN  /\ n = Min(L, BLOCK_SIZE - o)
                /\ n >= 1
                /\ n <= BLOCK_SIZE - o
                /\ (total + n - 1) \div BLOCK_SIZE = total \div BLOCK_SIZE
                /\ \A i \in 0..(n - 1) :
                       user_buff[p][i + 1] = ByteAt(data, total + i)
                /\ op[p] = "read" =>
                       \A i \in (n + 1)..L : user_buff[p][i] = Unset
                /\ op[p] = "write" => StoreIsFlat

\* A write that was clipped at the end of its block has returned.
C1_Witness ==
    \E p \in Procs :
        /\ Succeeded(p)
        /\ op[p] = "write"
        /\ InBlock(p) > 0
        /\ InBlock(p) + Len(user_buff[p]) > BLOCK_SIZE
        /\ result[p].val = BLOCK_SIZE - InBlock(p)

\* C2 (round trip): in a sequential execution, after a write of B at X that
\* fits its block and that no later write has touched, a read at X of
\* len(B) bytes that returns Ok returns len(B) and delivers exactly B; such
\* a read can fail only in the copy to the user's buffer.
C2_RoundTrip ==
    \A p \in Procs :
        ( /\ p \in callers
          /\ pc[p] = "done"
          /\ op[p] = "read"
          /\ Len(user_buff[p]) > 0
          /\ lastw.off = offset[p]
          /\ Len(lastw.buf) = Len(user_buff[p]) )
        => IF result[p].ok
           THEN /\ result[p].val = Len(lastw.buf)
                /\ user_buff[p] = lastw.buf
           ELSE result[p].err = "EFAULT"

\* A read has returned the bytes written before it at an offset inside a
\* block.
C2_Witness ==
    \E p \in Procs :
        /\ Succeeded(p)
        /\ op[p] = "read"
        /\ lastw.off = offset[p]
        /\ InBlock(p) > 0
        /\ Len(lastw.buf) > 1
        /\ user_buff[p] = lastw.buf

\* C3 (lazy zero-fill): in a sequential execution, every byte a successful
\* read delivers from a position that no write has covered is zero.
C3_LazyZeroFill ==
    \A p \in Procs :
        Succeeded(p) /\ op[p] = "read" =>
            \A i \in 0..(result[p].val - 1) :
                (TotalOffset(p) + i) \notin DOMAIN flat => user_buff[p][i + 1] = 0

\* A read has delivered never-written bytes of a block that an earlier
\* write materialized.
C3_Witness ==
    \E p \in Procs :
        /\ Succeeded(p)
        /\ op[p] = "read"
        /\ \E pos \in DOMAIN flat : pos \div BLOCK_SIZE = TotalOffset(p) \div BLOCK_SIZE
        /\ \E i \in 0..(result[p].val - 1) :
               /\ (TotalOffset(p) + i) \notin DOMAIN flat
               /\ user_buff[p][i + 1] = 0

\* Position of a status on the path absent -> empty -> full; a block of any
\* other length is on no path.
Rank(st) ==
    CASE st = "absent" -> 0
      [] st = "empty" -> 1
      [] st = "full" -> 2
      [] OTHER -> 0 - 1

\* The caller is inside find_block, holding the lock on data.
InFindBlock(p) == pc[p] \in {"fb_push", "fb_resize"} /\ dataLock = p

\* C4 (growth monotonicity): in every step of every concurrent execution,
\* failing calls included, len(blocks) does not decrease, no row's status
\* moves backward on absent -> empty -> full (so a full block stays full),
\* and a step that changes any row's status is taken inside find_block.
C4_GrowthMonotone ==
    [][ /\ Len(data') >= Len(data)
        /\ \A r \in 0..Len(data') :
               Rank(Status(data', r)) >= Rank(Status(data, r))
        /\ (\E r \in 0..Len(data') : Status(data', r) # Status(data, r))
               => \E p \in Procs : InFindBlock(p) ]_vars

\* The store has grown past an empty row to a full one while a call failed
\* for lack of memory.
C4_Witness ==
    /\ Len(data) >= 2
    /\ Status(data, 0) = "empty"
    /\ Status(data, 1) = "full"
    /\ \E p \in Procs : pc[p] = "done" /\ result[p].err = "ENOMEM"

\* C5 (zero-length no-op): the step in which a caller invokes read or write
\* with an empty buffer returns Ok(0) in that same step, at any offset, and
\* changes neither the store, nor the cursor, nor the holder of either lock.
C5_ZeroLengthNoOp ==
    [][ \A p \in Procs :
            (calls'[p] # calls[p] /\ Len(user_buff'[p]) = 0) =>
                /\ pc'[p] = "done"
                /\ result'[p] = Ok(0)
                /\ data' = data
                /\ cursor' = cursor
                /\ dataLock' = dataLock
                /\ cursorLock' = cursorLock ]_vars

\* A call with an empty buffer at the largest offset has returned Ok(0) on a
\* store that has no block.
C5_Witness ==
    \E p \in Procs :
        /\ calls[p] > 0
        /\ pc[p] = "done"
        /\ Len(user_buff[p]) = 0
        /\ offset[p] = U64_MAX
        /\ result[p] = Ok(0)
        /\ data = << >>

\* One of the two sums of a call exceeds what its type can hold.
SumOverflows(p) ==
    \/ TotalOffset(p) > U64_MAX
    \/ InBlock(p) + Len(user_buff[p]) > USIZE_MAX

\* The call ended because an allocation or the copy failed.
FailedOtherwise(p) ==
    pc[p] = "done" /\ result[p].err \in {"ENOMEM", "EFAULT", "EINVAL"}

\* C6 (overflow rejection): a call one of whose sums overflows, and that no
\* allocation failure ended first, ends by returning the error
\* OffsetOverflow, and the first call of an execution leaves the store
\* without a block.
C6_OverflowRejected ==
    \A p \in Procs :
        ( /\ calls[p] > 0
          /\ SumOverflows(p)
          /\ pc[p] \in {"done", "panicked"}
          /\ ~FailedOtherwise(p) )
        => /\ pc[p] = "done"
           /\ result[p] = Err("OffsetOverflow")
           /\ TotalCalls = 1 => data = << >>

\* C7 (continuation): in a sequential execution, when a write of a chain
\* (a buffer written by re-invoking write with the offset advanced by the
\* count returned and the rest of the buffer) returns Ok, it has moved at
\* least one byte, so the chain has made no more calls than bytes moved;
\* the bytes of the call lie in one block, which the store now holds in
\* full; and the bytes moved so far by the chain are stored contiguously
\* from the chain's first offset.
C7_Continuation ==
    \A p \in Procs :
        Succeeded(p) /\ op[p] = "write" =>
            /\ result[p].val >= 1
            /\ chain[p].calls <= chain[p].sent
            /\ chain[p].sent <= Len(chain[p].buf)
            /\ (TotalOffset(p) + result[p].val - 1) \div BLOCK_SIZE
                   = TotalOffset(p) \div BLOCK_SIZE
            /\ Status(data, TotalOffset(p) \div BLOCK_SIZE) = "full"
            /\ \A i \in 0..(chain[p].sent - 1) :
                   ByteAt(data, chain[p].off + i) = chain[p].buf[i + 1]

\* A buffer that straddles the end of block 0 has been written in two calls,
\* the second of which grew the store to block 1.
C7_Witness ==
    \E p \in Procs :
        /\ Succeeded(p)
        /\ op[p] = "write"
        /\ chain[p].calls = 2
        /\ chain[p].sent = Len(chain[p].buf)
        /\ chain[p].off = BLOCK_SIZE - 1
        /\ TotalOffset(p) = BLOCK_SIZE
        /\ Len(data) = 2

\* C8 (no lost updates): in every state of every concurrent execution the
\* store holds, at every position, the byte of the last successful write
\* that covered it, in the order in which the writes copied under the lock
\* on data, and zero where no write did; every written position is in a
\* full block.
C8_NoLostUpdates ==
    /\ \A pos \in AllPositions : ByteAt(data, pos) = FlatAt(pos)
    /\ \A pos \in DOMAIN flat : Status(data, pos \div BLOCK_SIZE) = "full"

\* Two callers have written overlapping ranges at the same offset: the
\* shorter write came last and the longer one's bytes beyond it are kept.
C8_Witness ==
    \E p \in Procs : \E q \in Procs :
        /\ Succeeded(p) /\ op[p] = "write"
        /\ Succeeded(q) /\ op[q] = "write"
        /\ offset[p] = offset[q]
        /\ Len(user_buff[p]) < Len(user_buff[q])
        /\ ByteAt(data, offset[p]) = user_buff[p][1]
        /\ ByteAt(data, offset[p] + Len(user_buff[p]))
               = user_buff[q][Len(user_buff[p]) + 1]

\* C9 (the race window is safe): in every state of every concurrent
\* execution, a caller that is between find_block's return and its copy has
\* a row that the store holds in full, and once it holds the lock for the
\* copy its range [block_offset, end) lies inside that block.
C9_RaceWindowSafe ==
    \A p \in Procs :
        /\ pc[p] \in {"xfer_lock", "xfer_copy"} =>
               /\ row[p] < Len(data)
               /\ Len(data[row[p] + 1]) = BLOCK_SIZE
        /\ pc[p] = "xfer_copy" =>
               /\ block_offset[p] <= endv[p]
               /\ endv[p] <= BLOCK_SIZE

\* A caller holds the lock for its copy while the store has grown beyond
\* its row and the other caller is in the window for another row.
C9_Witness ==
    \E p \in Procs : \E q \in Procs :
        /\ pc[p] = "xfer_copy"
        /\ pc[q] = "xfer_lock"
        /\ row[q] > row[p]
        /\ Len(data) > row[p] + 1

\* C10 (no partial-success error): every call that has ended has returned,
\* either Ok with the full clipped count or one of the errors; and the
\* store holds exactly the bytes of the writes that returned Ok.
C10_NoPartialSuccess ==
    \A p \in Procs :
        (calls[p] > 0 /\ pc[p] \in {"done", "panicked"}) =>
            /\ pc[p] = "done"
            /\ IF result[p].ok
               THEN result[p].val = Expected(TotalOffset(p), user_buff[p])
               ELSE result[p].err \in {"ENOMEM", "EINVAL", "OffsetOverflow", "EFAULT"}
            /\ StoreIsFlat

\* The call has returned ENOMEM from find_block.
OutOfMemory(p) == p \in callers /\ pc[p] = "done" /\ result[p].err = "ENOMEM"

\* find_block has returned Ok to the call, which has not copied yet.
Found(p) == p \in callers /\ pc[p] \in {"xfer_lock", "xfer_copy"}

\* C11 (OutOfMemory is safe to retry): in a sequential execution, when
\* find_block fails in a push or in the resize, the call returns ENOMEM with
\* the lock on data released; the store is then the store find_block was
\* entered with, followed by the empty blocks pushed before the failure, no
\* more of them than the row asked for; and when the caller's next call is
\* for the same row and its find_block returns Ok, the store is the one
\* that a find_block that never failed would have left: the row exists and
\* is full.
C11_RetryAfterOutOfMemory ==
    \A p \in Procs :
        /\ OutOfMemory(p) =>
               /\ dataLock # p
               /\ entry[p].set
               /\ retry[p].set
               /\ Len(data) >= Len(entry[p].dat)
               /\ Len(data) > Len(entry[p].dat) => Len(data) <= row[p] + 1
               /\ \A i \in 1..Len(data) :
                      data[i] = IF i <= Len(entry[p].dat)
                                THEN entry[p].dat[i] ELSE << >>
               /\ ensure_block(data, row[p]) = retry[p].want
        /\ (Found(p) /\ retry[p].set) =>
               /\ retry[p].row = row[p]
               /\ Len(data) >= row[p] + 1
               /\ Len(data[row[p] + 1]) = BLOCK_SIZE
               /\ data = retry[p].want

\* A call for row 1 failed after pushing block 0; the next call for row 1
\* entered find_block with that block, pushed block 1 and filled it.
C11_Witness ==
    \E p \in Procs :
        /\ Found(p)
        /\ retry[p].set
        /\ row[p] = 1
        /\ entry[p].dat = << << >> >>
        /\ Len(data) = 2
        /\ data = retry[p].want

\* Caller p waits for a mutex that q holds.
WaitsFor(p, q) ==
    \/ pc[p] = "cursor_lock" /\ cursorLock = q
    \/ pc[p] \in {"find_block", "xfer_lock"} /\ dataLock = q

\* C12 (lock discipline): in every state of every concurrent execution no
\* caller holds the cursor's mutex and data's mutex together; a caller
\* holds the cursor's mutex exactly between locking it and reading it, which
\* is before its find_block, and holds data's mutex only inside find_block
\* or in its copy (or after a panic there); and no callers wait for each
\* other in a cycle, a caller waiting for a mutex it holds included.
C12_LockDiscipline ==
    /\ \A p \in Procs :
           /\ ~(cursorLock = p /\ dataLock = p)
           /\ cursorLock = p <=> pc[p] = "cursor_read"
           /\ dataLock = p =>
                  pc[p] \in {"fb_push", "fb_resize", "xfer_copy", "panicked"}
           /\ pc[p] \in {"fb_push", "fb_resize", "xfer_copy"} => dataLock = p
    /\ cursorLock \in Procs \cup {NoOne}
    /\ dataLock \in Procs \cup {NoOne}
    /\ ~ \E p \in Procs : \E q \in Procs : WaitsFor(p, q) /\ WaitsFor(q, p)

\* One caller pushes blocks under data's mutex while the other holds the
\* cursor's mutex.
C12_Witness ==
    \E p \in Procs : \E q \in Procs :
        /\ p # q
        /\ dataLock = p
        /\ pc[p] = "fb_push"
        /\ cursorLock = q

Max(a, b) == IF a > b THEN a ELSE b

\* C13 (find_block postcondition): in a sequential execution, when
\* find_block(row), entered with n blocks, has returned Ok, it returned
\* BLOCK_SIZE and the store has max(n, row + 1) blocks; for row >= n these are
\* row - n + 1 more than before, of which the blocks n..row-1 are empty; block
\* row has BLOCK_SIZE bytes, its old ones if it was full and zeros otherwise;
\* and every other block is as it was.
C13_FindBlockPostcondition ==
    \A p \in Procs :
        Found(p) =>
            LET old == entry[p].dat
                n == Len(old)
                r == row[p]
            IN  /\ entry[p].set
                /\ bytes[p] = BLOCK_SIZE
                /\ Len(data) = Max(n, r + 1)
                /\ r >= n => Len(data) - n = r - n + 1
                /\ \A i \in n..(r - 1) : data[i + 1] = << >>
                /\ data[r + 1] =
                       IF r < n /\ Len(old[r + 1]) = BLOCK_SIZE
                       THEN old[r + 1]
                       ELSE [k \in 1..BLOCK_SIZE |-> 0]
                /\ r < n => Len(old[r + 1]) \in {0, BLOCK_SIZE}
                /\ \A i \in 0..(n - 1) : i # r => data[i + 1] = old[i + 1]
                /\ data = ensure_block(old, r)

\* find_block(1) on a store without a block pushed two blocks and filled the
\* second; a later find_block(0) has filled the block that was skipped,
\* without pushing.
C13_Witness ==
    \E p \in Procs :
        /\ Found(p)
        /\ row[p] = 0
        /\ Len(entry[p].dat) = 2
        /\ entry[p].dat[1] = << >>
        /\ Len(entry[p].dat[2]) = BLOCK_SIZE
        /\ Len(data) = 2
        /\ data[1] = [k \in 1..BLOCK_SIZE |-> 0]

\* C14 (block-size invariant): in every state of every concurrent
\* execution, and so in every state in which data's mutex is free, after
\* failed calls too, every block of the store has length 0 or BLOCK_SIZE.
C14_BlockSizeInvariant ==
    /\ \A i \in 1..Len(data) : Len(data[i]) \in {0, BLOCK_SIZE}
    /\ dataLock = NoOne =>
           \A r \in 0..(Len(data) - 1) : Status(data, r) \in {"empty", "full"}

\* Data's mutex is free, a call has failed for lack of memory, and the store
\* has an empty block and a block that holds written bytes.
C14_Witness ==
    /\ dataLock = NoOne
    /\ \E p \in Procs : OutOfMemory(p)
    /\ \E i \in 1..Len(data) : Len(data[i]) = 0
    /\ \E i \in 1..Len(data) :
           /\ Len(data[i]) = BLOCK_SIZE
           /\ \E k \in 1..BLOCK_SIZE : data[i][k] # 0

\* The shape of a store: the lengths of its blocks, in order.
Shape(d) == [i \in 1..Len(d) |-> Len(d[i])]

\* C15 (transfer frame): in every step of every concurrent execution, a
\* step of a caller's transfer (locking data for the copy, the copy itself)
\* leaves the shape of the store as it is; the transfer of a read leaves the
\* store as it is; the copy of a write puts the first end - block_offset
\* bytes of its buffer at [block_offset, end) of block row and changes no
\* other byte; and a step that changes the shape is taken by a caller
\* inside find_block.
C15_TransferFrame ==
    [][ /\ \A p \in Procs :
               (pc[p] \in {"xfer_lock", "xfer_copy"} /\ pc'[p] # pc[p]) =>
                   /\ Shape(data') = Shape(data)
                   /\ op[p] = "read" => data' = data
                   /\ (op[p] = "write" /\ pc'[p] = "done" /\ result'[p].ok) =>
                          \A i \in 1..Len(data) : \A k \in 1..Len(data[i]) :
                              data'[i][k] =
                                  IF /\ i = row[p] + 1
                                     /\ block_offset[p] < k
                                     /\ k <= endv[p]
                                  THEN user_buff[p][k - block_offset[p]]
                                  ELSE data[i][k]
                   /\ (pc'[p] = "done" /\ ~result'[p].ok) => data' = data
        /\ Shape(data') # Shape(data) => \E p \in Procs : InFindBlock(p) ]_vars

\* A write into the middle of block 1 has returned: the bytes of the block
\* before and after its range are still zero and block 0 is still empty.
C15_Witness ==
    \E p \in Procs :
        /\ Succeeded(p)
        /\ op[p] = "write"
        /\ row[p] = 1
        /\ block_offset[p] = 1
        /\ endv[p] < BLOCK_SIZE
        /\ Shape(data) = <<0, BLOCK_SIZE>>
        /\ data[2][1] = 0
        /\ data[2][2] = user_buff[p][1]
        /\ data[2][BLOCK_SIZE] = 0

\* The call has translated its offset into a row and an in-block offset.
Translated(p) ==
    pc[p] \in {"find_block", "fb_push", "fb_resize", "xfer_lock", "xfer_copy"}

\* C16 (the cursor is never advanced): in every state of every concurrent
\* execution the cursor is 0, as try_new set it, and a call that has
\* translated its offset has row = _offset / BLOCK_SIZE and block_offset =
\* _offset % BLOCK_SIZE, whatever the earlier calls transferred.
C16_CursorNeverAdvanced ==
    /\ cursor = 0
    /\ \A p \in Procs :
           Translated(p) =>
               /\ row[p] = offset[p] \div BLOCK_SIZE
               /\ block_offset[p] = offset[p] % BLOCK_SIZE

\* After a write has stored bytes, a caller's second call at offset
\* BLOCK_SIZE + 1 is translated to row 1, in-block offset 1.
C16_Witness ==
    \E p \in Procs :
        /\ calls[p] = 2
        /\ Translated(p)
        /\ DOMAIN flat # {}
        /\ offset[p] = BLOCK_SIZE + 1
        /\ row[p] = 1
        /\ block_offset[p] = 1
        /\ cursor = 0

\* C17 (no torn reads): in every state of every concurrent execution whose
\* copies move one byte in a step, a read that is copying holds data's mutex,
\* no other caller is inside find_block or copying, so no write is applied
\* in part, and the bytes the read has delivered so far are the bytes the
\* store holds now at the start of its range, the rest of its buffer being
\* untouched: when its last byte is delivered, what it delivers is the
\* content of its range in one state, in which every write has stored either
\* all of its bytes or none.
C17_NoTornReads ==
    \A p \in Procs :
        (pc[p] = "xfer_copy" /\ op[p] = "read") =>
            /\ dataLock = p
            /\ \A q \in Procs \ {p} :
                   /\ pc[q] \notin {"fb_push", "fb_resize", "xfer_copy"}
                   /\ moved[q] = 0
            /\ moved[p] <= endv[p] - block_offset[p]
            /\ \A i \in 1..moved[p] :
                   user_buff[p][i] = ByteAt(data, offset[p] + i - 1)
            /\ \A i \in (moved[p] + 1)..Len(user_buff[p]) :
                   user_buff[p][i] = Unset

\* A read has delivered some of its bytes, not all, while a write to the
\* same offset waits for data's mutex.
C17_Witness ==
    \E p \in Procs : \E q \in Procs :
        /\ pc[p] = "xfer_copy"
        /\ op[p] = "read"
        /\ moved[p] >= 1
        /\ moved[p] < endv[p] - block_offset[p]
        /\ pc[q] = "xfer_lock"
        /\ op[q] = "write"
        /\ offset[q] = offset[p]

\* A call of the caller is under way.
Started(p) == pc[p] \notin {"idle", "done"}

\* C18 (every operation completes): with fair scheduling and fair granting
\* of the two mutexes, every call that has started eventually returns, a
\* byte count or an error.
C18_EveryCallReturns ==
    \A p \in Procs : Started(p) ~> (pc[p] = "done")

\* Every call that has started eventually returns unless some call has
\* aborted: the aborts are the only calls that do not return, and the only
\* reason a caller waits forever for a mutex.
C18_ReturnsUnlessAborted ==
    \A p \in Procs :
        Started(p) ~> (pc[p] = "done" \/ \E q \in Procs : pc[q] = "panicked")

\* C19 (flat-array equivalence): in a sequential execution the store
\* behaves like one zero-initialised byte array, flat, indexed by absolute
\* offset, to which each successful write of a buffer of length L stores its
\* first min(L, BLOCK_SIZE - offset mod BLOCK_SIZE) bytes at offset: byte k
\* of every full block i is the array's byte at i * BLOCK_SIZE + k, the array
\* is zero at every position of an empty or absent block, and a successful
\* call returns that count, a read having delivered the array's bytes at
\* offset.. and a write finding its bytes there.
C19_FlatArrayEquivalence ==
    /\ \A i \in 0..(Len(data) - 1) :
           Len(data[i + 1]) = BLOCK_SIZE =>
               \A k \in 0..(BLOCK_SIZE - 1) :
                   data[i + 1][k + 1] = FlatAt(i * BLOCK_SIZE + k)
    /\ \A pos \in DOMAIN flat :
           /\ pos \div BLOCK_SIZE < Len(data)
           /\ Len(data[(pos \div BLOCK_SIZE) + 1]) = BLOCK_SIZE
    /\ \A p \in Procs :
           Succeeded(p) =>
               /\ result[p].val =
                      Min(Len(user_buff[p]),
                          BLOCK_SIZE - (offset[p] % BLOCK_SIZE))
               /\ \A j \in 0..(result[p].val - 1) :
                      user_buff[p][j + 1] = FlatAt(offset[p] + j)

\* After a write into block 1, a read at the same offset has delivered the
\* array's bytes there, block 0 being still empty.
C19_Witness ==
    \E p \in Procs :
        /\ Succeeded(p)
        /\ op[p] = "read"
        /\ offset[p] = BLOCK_SIZE + 1
        /\ offset[p] \in DOMAIN flat
        /\ user_buff[p][1] = flat[offset[p]]
        /\ user_buff[p][1] # 0
        /\ result[p].val > 1
        /\ data[1] = << >>

\* The block index and the in-block offset of the call fit usize.
Fits(p) ==
    /\ TotalOffset(p) \div BLOCK_SIZE <= USIZE_MAX
    /\ TotalOffset(p) % BLOCK_SIZE <= USIZE_MAX

\* A call whose block index does not fit usize never enters find_block: it
\* returns EINVAL, and the store and the cursor are as they were.
InvalidOffsetFirst ==
    \A p \in Procs :
        (calls[p] > 0 /\ Len(user_buff[p]) > 0 /\ ~Fits(p)) =>
            /\ pc[p] \in {"cursor_lock", "cursor_read", "done"}
            /\ pc[p] = "done" => result[p] = Err("EINVAL")
            /\ ~entry[p].set
            /\ dataLock # p
            /\ cursor = 0
            /\ TotalCalls = 1 => data = << >>

\* The number of blocks find_block is about to push fits usize.
AppendCountFits ==
    \A p \in Procs :
        (pc[p] = "find_block" /\ row[p] >= Len(data)) =>
            row[p] - Len(data) + 1 <= USIZE_MAX

\* C20 (InvalidOffset precedes growth): in a sequential execution, a call
\* whose block index or in-block offset does not fit usize fails with EINVAL
\* before find_block, leaving the store and the cursor unchanged; and every
\* row that does fit reaches find_block with an append count
\* row - len(blocks) + 1 that fits usize.
C20_InvalidOffsetPrecedesGrowth == InvalidOffsetFirst /\ AppendCountFits

====
